---- MODULE Spec2Model ----
(***************************************************************************)
(* Model of the grocery-list pipeline of app.py: the pure aggregator       *)
(* (aggregate_ingredients), the generation client (call_gemini_api) and    *)
(* the "Generate Grocery List" handler that drives the per-dish loop, the  *)
(* categorizer call and the aggregator.                                    *)
(*                                                                         *)
(* Strings are sequences of one-character tokens.  "sharp_s" stands for    *)
(* U+00DF (LATIN SMALL LETTER SHARP S): str.lower() leaves it alone and    *)
(* str.title() maps it to the two characters "Ss" at the start of a word.  *)
(***************************************************************************)
EXTENDS Integers, Sequences, FiniteSets, TLC

\* ------------------------------------------------------------------------
\* Bounds
\* ------------------------------------------------------------------------
\* largest number of entries (both buckets together) of an aggregator input
MaxEntries == 3

\* ------------------------------------------------------------------------
\* Python values
\* ------------------------------------------------------------------------
\* str.lower() on one character
LowerChar(c) == IF c = "S" THEN "s" ELSE c

\* the title-case mapping of one character, as a string
TitleChar(c) ==
  IF c = "s" \/ c = "S" THEN <<"S">>
  ELSE IF c = "sharp_s" THEN <<"S", "s">>
  ELSE <<c>>

\* whether a character is cased (a letter with case variants)
IsCased(c) == c \in {"s", "S", "sharp_s"}

\* str.isspace() on one character
IsSpace(c) == c = " "

\* str.lower()
lower(s) == [i \in 1..Len(s) |-> LowerChar(s[i])]

\* the loop of str.title(): a cased character is title-cased after an
\* uncased one (or at the start) and lower-cased after a cased one
RECURSIVE TitleFrom(_, _, _)
TitleFrom(s, i, previousIsCased) ==
  IF i > Len(s) THEN <<>>
  ELSE IF IsCased(s[i])
       THEN (IF previousIsCased THEN <<LowerChar(s[i])>> ELSE TitleChar(s[i]))
            \o TitleFrom(s, i + 1, TRUE)
       ELSE <<s[i]>> \o TitleFrom(s, i + 1, FALSE)

\* str.title()
title(s) == TitleFrom(s, 1, FALSE)

\* str.lstrip()
RECURSIVE lstrip(_)
lstrip(s) == IF s # <<>> /\ IsSpace(Head(s)) THEN lstrip(Tail(s)) ELSE s

\* str.rstrip()
RECURSIVE rstrip(_)
rstrip(s) ==
  IF s # <<>> /\ IsSpace(s[Len(s)]) THEN rstrip(SubSeq(s, 1, Len(s) - 1)) ELSE s

\* str.strip()
strip(s) == rstrip(lstrip(s))

\* dict.get(key, default)
Get(d, key, default) == IF key \in DOMAIN d THEN d[key] ELSE default

\* ------------------------------------------------------------------------
\* aggregate_ingredients
\* ------------------------------------------------------------------------
\* the separator of f" + {item['quantity']}"
Separator == <<" ", "+", " ">>

\* position of a key in an insertion-ordered dict, 0 when absent
IndexOf(d, name) ==
  IF \E k \in 1..Len(d) : d[k].name = name
  THEN CHOOSE k \in 1..Len(d) : d[k].name = name
  ELSE 0

\* the loop body without .lower(): the item itself is the key
AggregateStepNoLower(d, item) ==
  LET name == item.item
      k == IndexOf(d, name)
  IN IF k # 0
     THEN [d EXCEPT ![k].quantity = @ \o Separator \o item.quantity]
     ELSE Append(d, [name |-> name, quantity |-> item.quantity])

\* the loop body with = in place of +=: a later quantity replaces the earlier
AggregateStepOverwrite(d, item) ==
  LET name == lower(item.item)
      k == IndexOf(d, name)
  IN IF k # 0
     THEN [d EXCEPT ![k].quantity = item.quantity]
     ELSE Append(d, [name |-> name, quantity |-> item.quantity])

\* the loop body re-inserting a key it updates, which moves it to the end
AggregateStepMoveToEnd(d, item) ==
  LET name == lower(item.item)
      k == IndexOf(d, name)
  IN IF k # 0
     THEN Append(SubSeq(d, 1, k - 1) \o SubSeq(d, k + 1, Len(d)),
                 [name |-> name, quantity |-> d[k].quantity \o Separator \o item.quantity])
     ELSE Append(d, [name |-> name, quantity |-> item.quantity])

\* one iteration of the aggregation loop over an insertion-ordered dict d
\* (a sequence of name/quantity pairs): append to the quantity of a key
\* already present, otherwise insert the key at the end
AggregateStep(d, item) ==
  LET name == lower(item.item)
      k == IndexOf(d, name)
  IN IF k # 0
     THEN [d EXCEPT ![k].quantity = @ \o Separator \o item.quantity]
     ELSE Append(d, [name |-> name, quantity |-> item.quantity])

\* the for loop over one bucket, starting from the dict d
RECURSIVE AggregateLoop(_, _)
AggregateLoop(d, bucket) ==
  IF bucket = <<>> THEN d
  ELSE AggregateLoop(AggregateStep(d, Head(bucket)), Tail(bucket))

\* the list comprehension that turns the dict back into a list of entries
FinalList(d) ==
  [k \in 1..Len(d) |-> [item |-> title(d[k].name), quantity |-> d[k].quantity]]

\* whether an entry has both keys (item['item'] and item['quantity'] do
\* not raise KeyError)
HasBothKeys(e) == "item" \in DOMAIN e /\ "quantity" \in DOMAIN e

\* whether aggregate_ingredients raises KeyError on the input
AggregateRaises(categorized_ingredients) ==
  \E b \in {"pantry", "perishables"} :
    LET bucket == Get(categorized_ingredients, b, <<>>)
    IN \E k \in 1..Len(bucket) : ~HasBothKeys(bucket[k])

aggregate_ingredients(categorized_ingredients) ==
  LET aggregated_pantry ==
        AggregateLoop(<<>>, Get(categorized_ingredients, "pantry", <<>>))
      aggregated_perishables ==
        AggregateLoop(<<>>, Get(categorized_ingredients, "perishables", <<>>))
  IN [pantry |-> FinalList(aggregated_pantry),
      perishables |-> FinalList(aggregated_perishables)]

\* ------------------------------------------------------------------------
\* Python values that flow out of the generation client
\* ------------------------------------------------------------------------
\* the empty dict {}
EmptyDict == [k \in {} |-> <<>>]

\* a value tagged with its Python type: None, a str, a list or a dict
PyNone == [type |-> "NoneType", str |-> <<>>, list |-> <<>>, dict |-> EmptyDict]

PyStr(s) == [type |-> "str", str |-> s, list |-> <<>>, dict |-> EmptyDict]

PyList(l) == [type |-> "list", str |-> <<>>, list |-> l, dict |-> EmptyDict]

PyDict(d) == [type |-> "dict", str |-> <<>>, list |-> <<>>, dict |-> d]

\* the truth value of "if v:" with "is not None" in place of truthiness
IsTruthyNotNone(v) == v.type # "NoneType"

\* the truth value of "if v:": None, "", [] and {} are false
IsTruthy(v) ==
  CASE v.type = "NoneType" -> FALSE
    [] v.type = "str" -> v.str # <<>>
    [] v.type = "list" -> v.list # <<>>
    [] v.type = "dict" -> DOMAIN v.dict # {}

\* list.extend with the new elements put in front
ExtendFront(list, more) == more \o list

\* list.extend
Extend(list, more) == list \o more

\* ------------------------------------------------------------------------
\* call_gemini_api and the two structured calls
\* ------------------------------------------------------------------------
\* what the HTTP exchange can deliver:
\*   request_exception  requests.post / raise_for_status / response.json raise
\*   not_an_object      the body is JSON but not an object
\*   no_candidates      the object lacks candidates / content / parts
\*   no_text            parts[0] has no "text"
\*   text               parts[0]["text"] is present; body is its content and
\*                      valid_json tells whether json.loads accepts it
ResponseKinds ==
  {"request_exception", "not_an_object", "no_candidates", "no_text", "text"}

Response(kind, valid_json, body) ==
  [kind |-> kind, valid_json |-> valid_json, body |-> body]

\* a call returns a value or lets an exception propagate
Return(v) == [raised |-> "", value |-> v]

Raise(exc) == [raised |-> exc, value |-> PyNone]

call_gemini_api(response, schema) ==
  CASE response.kind = "request_exception" -> Return(PyNone)
    [] response.kind = "not_an_object" -> Raise("AttributeError")
    [] response.kind = "no_candidates" -> Return(PyNone)
    [] response.kind = "no_text" ->
         IF schema THEN Raise("TypeError") ELSE Return(PyNone)
    [] response.kind = "text" ->
         IF schema
         THEN (IF response.valid_json THEN Return(response.body) ELSE Return(PyNone))
         ELSE Return(response.body)

extract_ingredients(recipe_text, response) == call_gemini_api(response, TRUE)

\* building the prompt reads item['item'] and item['quantity'] of every
\* element before the call is made
categorize_and_normalize_ingredients(ingredient_list_json, response) ==
  IF \E k \in 1..Len(ingredient_list_json) : ~HasBothKeys(ingredient_list_json[k])
  THEN Raise("KeyError")
  ELSE call_gemini_api(response, TRUE)

\* ------------------------------------------------------------------------
\* Bounds and inputs
\* ------------------------------------------------------------------------
\* largest number of dishes in st.session_state.dishes
MaxDishes == 2

\* largest number of entries one extraction returns
MaxExtracted == 2

\* largest number of clicks on "Generate Grocery List" in a session
MaxRuns == 2

\* item names: "s", "S", " s", "s ", U+00DF, "ss"
Items ==
  { <<"s">>, <<"S">>, <<" ", "s">>, <<"s", " ">>, <<"sharp_s">>, <<"s", "s">> }

\* quantity strings "1" and "2"
Quantities == { <<"1">>, <<"2">> }

\* IngredientEntry values
Entries == [item : Items, quantity : Quantities]

\* sequences of entries of length n
BucketsOfLen(n) == [1..n -> Entries]

\* CategorizedSet values with at most MaxEntries entries
CategorizedSets ==
  UNION { [pantry : BucketsOfLen(n), perishables : BucketsOfLen(m)] :
            <<n, m>> \in { p \in (0..MaxEntries) \X (0..MaxEntries) :
                            p[1] + p[2] <= MaxEntries } }

\* dish names typed into the text inputs: "", " " and " s"
DishNames == { <<>>, <<" ">>, <<" ", "s">> }

\* every failure of the HTTP exchange
FailureResponses ==
  { Response(kind, FALSE, PyNone) : kind \in ResponseKinds \ {"text"} }

\* recipe texts: "" and "r"
RecipeResponses ==
  FailureResponses \cup { Response("text", FALSE, PyStr(t)) : t \in { <<>>, <<"r">> } }

\* elements of an extraction result: two entries and an object without quantity
ExtractedElements ==
  { [item |-> <<"s">>, quantity |-> <<"1">>],
    [item |-> <<"S">>, quantity |-> <<"2">>],
    [item |-> <<"s">>] }

ExtractedLists == UNION { [1..n -> ExtractedElements] : n \in 0..MaxExtracted }

\* extraction texts: not JSON, null, or an array
ExtractionResponses ==
  FailureResponses
    \cup { Response("text", FALSE, PyNone), Response("text", TRUE, PyNone) }
    \cup { Response("text", TRUE, PyList(l)) : l \in ExtractedLists }

\* bucket values of a categorizer payload
PayloadBuckets ==
  { <<>>,
    << [item |-> <<"s">>, quantity |-> <<"1">>] >>,
    << [item |-> <<"s">>, quantity |-> <<"1">>], [item |-> <<"S">>, quantity |-> <<"2">>] >>,
    << [item |-> <<"s">>] >> }

\* categorizer payloads: objects with any subset of the two bucket fields
Payloads ==
  UNION { [keys -> PayloadBuckets] : keys \in SUBSET {"pantry", "perishables"} }

\* categorizer texts: not JSON, null, or an object
CategorizerResponses ==
  FailureResponses
    \cup { Response("text", FALSE, PyNone), Response("text", TRUE, PyNone) }
    \cup { Response("text", TRUE, PyDict(d)) : d \in Payloads }

\* ------------------------------------------------------------------------
\* State
\* ------------------------------------------------------------------------
VARIABLES
  input,        \* the argument of aggregate_ingredients
  output,       \* its return value
  output2,      \* the return value of the call on output
  apc,          \* "start", "aggregated" or "reaggregated"
  dishes,                        \* st.session_state.dishes
  pc,                            \* where the script run stands
  runs,                          \* clicks on "Generate Grocery List" so far
  valid_dishes,                  \* dishes with a non-blank name
  i,                             \* 1-based index of the dish in the loop
  recipe_content,                \* the recipe text of the current dish
  total_ingredients_extracted,   \* the accumulator
  categorized_and_normalized,    \* what the categorizer returned
  final_grocery_list,            \* what the aggregator returned
  dish_state,                    \* per dish: which branch of the loop it took
  extracted,                     \* per dish: the list its extraction returned
  extraction_calls,              \* dish indices passed to extract_ingredients
  categorizer_calls,             \* calls of categorize_and_normalize_ingredients
  categorizer_input,             \* the argument of the last such call
  aggregator_calls,              \* calls of aggregate_ingredients
  raised_in                      \* the stage an uncaught exception came from

aggVars == <<input, output, output2, apc>>

runVars ==
  <<pc, valid_dishes, i, recipe_content, total_ingredients_extracted,
    categorized_and_normalized, final_grocery_list, dish_state, extracted,
    extraction_calls, categorizer_calls, categorizer_input, aggregator_calls,
    raised_in>>

appVars == <<dishes, runs, runVars>>

vars == <<aggVars, appVars>>

\* ------------------------------------------------------------------------
\* Initial states, and aggregate_ingredients as a pure function
\* ------------------------------------------------------------------------
\* the state of the app before any interaction
AppInit ==
  /\ dishes = << [name |-> <<>>, servings |-> 1] >>
  /\ pc = "idle"
  /\ runs = 0
  /\ valid_dishes = <<>>
  /\ i = 0
  /\ recipe_content = PyNone
  /\ total_ingredients_extracted = <<>>
  /\ categorized_and_normalized = PyNone
  /\ final_grocery_list = PyNone
  /\ dish_state = <<>>
  /\ extracted = <<>>
  /\ extraction_calls = <<>>
  /\ categorizer_calls = 0
  /\ categorizer_input = <<>>
  /\ aggregator_calls = 0
  /\ raised_in = ""

\* no call of the aggregator under test yet
AggIdle ==
  /\ input = [pantry |-> <<>>, perishables |-> <<>>]
  /\ output = [pantry |-> <<>>, perishables |-> <<>>]
  /\ output2 = [pantry |-> <<>>, perishables |-> <<>>]
  /\ apc = "start"

AggInit ==
  /\ input \in CategorizedSets
  /\ output = [pantry |-> <<>>, perishables |-> <<>>]
  /\ output2 = [pantry |-> <<>>, perishables |-> <<>>]
  /\ apc = "start"
  /\ AppInit

\* final_grocery_list = aggregate_ingredients(categorized_and_normalized)
Aggregate ==
  /\ apc = "start"
  /\ output' = aggregate_ingredients(input)
  /\ apc' = "aggregated"
  /\ UNCHANGED <<input, output2, appVars>>

\* aggregate_ingredients applied to its own result
Reaggregate ==
  /\ apc = "aggregated"
  /\ output2' = aggregate_ingredients(output)
  /\ apc' = "reaggregated"
  /\ UNCHANGED <<input, output, appVars>>

AggNext == Aggregate \/ Reaggregate

AggSpec == AggInit /\ [][AggNext]_vars

\* ------------------------------------------------------------------------
\* The Streamlit script: the dish list and the "Generate Grocery List" run
\* ------------------------------------------------------------------------
\* where a script run has ended and the page waits for the user
Resting ==
  {"idle", "EMPTY_INPUT", "NO_INGREDIENTS", "CATEGORIZATION_FAILED", "DONE", "CRASHED"}

\* a script run in which the button was not clicked: nothing of an earlier
\* run is left
Rerun ==
  /\ pc' = "idle"
  /\ valid_dishes' = <<>>
  /\ i' = 0
  /\ recipe_content' = PyNone
  /\ total_ingredients_extracted' = <<>>
  /\ categorized_and_normalized' = PyNone
  /\ final_grocery_list' = PyNone
  /\ dish_state' = <<>>
  /\ extracted' = <<>>
  /\ extraction_calls' = <<>>
  /\ categorizer_calls' = 0
  /\ categorizer_input' = <<>>
  /\ aggregator_calls' = 0
  /\ raised_in' = ""

add_dish ==
  /\ pc \in Resting
  /\ Len(dishes) < MaxDishes
  /\ dishes' = Append(dishes, [name |-> <<>>, servings |-> 1])
  /\ Rerun
  /\ UNCHANGED <<runs, aggVars>>

remove_dish(index) ==
  /\ pc \in Resting
  /\ Len(dishes) > 1
  /\ dishes' = SubSeq(dishes, 1, index - 1) \o SubSeq(dishes, index + 1, Len(dishes))
  /\ Rerun
  /\ UNCHANGED <<runs, aggVars>>

\* st.text_input of dish index: the user types a name
EditDishName(index, name) ==
  /\ pc \in Resting
  /\ dishes[index].name # name
  /\ dishes' = [dishes EXCEPT ![index].name = name]
  /\ Rerun
  /\ UNCHANGED <<runs, aggVars>>

\* [d for d in st.session_state.dishes if d['name'].strip()]
ValidDishes(ds) == SelectSeq(ds, LAMBDA d : strip(d.name) # <<>>)

\* the button is clicked: the run starts with an empty accumulator and
\* either warns about the empty plan or enters the per-dish loop
ClickGenerate ==
  /\ pc \in Resting
  /\ runs < MaxRuns
  /\ runs' = runs + 1
  /\ total_ingredients_extracted' = <<>>
  /\ valid_dishes' = ValidDishes(dishes)
  /\ IF valid_dishes' = <<>>
     THEN pc' = "EMPTY_INPUT" /\ i' = 0
     ELSE pc' = "recipe" /\ i' = 1
  /\ recipe_content' = PyNone
  /\ categorized_and_normalized' = PyNone
  /\ final_grocery_list' = PyNone
  /\ dish_state' = [k \in 1..Len(valid_dishes') |-> "PENDING"]
  /\ extracted' = [k \in 1..Len(valid_dishes') |-> <<>>]
  /\ extraction_calls' = <<>>
  /\ categorizer_calls' = 0
  /\ categorizer_input' = <<>>
  /\ aggregator_calls' = 0
  /\ raised_in' = ""
  /\ UNCHANGED <<dishes, aggVars>>

\* an exception nobody catches ends the script run
Crash(stage) ==
  /\ pc' = "CRASHED"
  /\ raised_in' = stage

\* the end of one loop iteration: the next dish, or the code after the loop
NextDish ==
  /\ i' = i + 1
  /\ pc' = IF i = Len(valid_dishes) THEN "post" ELSE "recipe"

\* recipe_content = call_gemini_api(recipe_prompt) and the branch on it
ResolveRecipe ==
  /\ pc = "recipe"
  /\ \E response \in RecipeResponses :
       LET r == call_gemini_api(response, FALSE)
       IN IF r.raised # ""
          THEN /\ Crash("recipe")
               /\ UNCHANGED <<i, recipe_content, dish_state>>
          ELSE /\ recipe_content' = r.value
               /\ raised_in' = raised_in
               /\ IF IsTruthy(r.value)
                  THEN /\ dish_state' = [dish_state EXCEPT ![i] = "RECIPE_FOUND"]
                       /\ pc' = "extraction"
                       /\ i' = i
                  ELSE /\ dish_state' = [dish_state EXCEPT ![i] = "RECIPE_FAILED"]
                       /\ NextDish
  /\ UNCHANGED <<dishes, runs, valid_dishes, total_ingredients_extracted,
                 categorized_and_normalized, final_grocery_list, extracted,
                 extraction_calls, categorizer_calls, categorizer_input,
                 aggregator_calls, aggVars>>

\* ingredients_for_dish = extract_ingredients(recipe_content) and the branch
ExtractIngredients ==
  /\ pc = "extraction"
  /\ extraction_calls' = Append(extraction_calls, i)
  /\ \E response \in ExtractionResponses :
       LET r == extract_ingredients(recipe_content, response)
       IN IF r.raised # ""
          THEN /\ Crash("extraction")
               /\ UNCHANGED <<i, total_ingredients_extracted, dish_state, extracted>>
          ELSE /\ raised_in' = raised_in
               /\ IF IsTruthy(r.value)
                  THEN /\ total_ingredients_extracted' =
                            Extend(total_ingredients_extracted, r.value.list)
                       /\ dish_state' = [dish_state EXCEPT ![i] = "INGREDIENTS_EXTRACTED"]
                       /\ extracted' = [extracted EXCEPT ![i] = r.value.list]
                  ELSE /\ dish_state' = [dish_state EXCEPT ![i] = "EXTRACTION_FAILED"]
                       /\ UNCHANGED <<total_ingredients_extracted, extracted>>
               /\ NextDish
  /\ UNCHANGED <<dishes, runs, valid_dishes, recipe_content,
                 categorized_and_normalized, final_grocery_list,
                 categorizer_calls, categorizer_input, aggregator_calls, aggVars>>

\* the code after the loop: the categorizer call on a non-empty accumulator,
\* the aggregator call on a truthy result, and the two error branches
ProcessAllIngredients ==
  /\ pc = "post"
  /\ IF IsTruthy(PyList(total_ingredients_extracted))
     THEN /\ categorizer_calls' = categorizer_calls + 1
          /\ categorizer_input' = total_ingredients_extracted
          /\ \E response \in CategorizerResponses :
               LET r == categorize_and_normalize_ingredients(
                          total_ingredients_extracted, response)
               IN IF r.raised # ""
                  THEN /\ Crash("categorize")
                       /\ UNCHANGED <<categorized_and_normalized, final_grocery_list,
                                      aggregator_calls>>
                  ELSE /\ categorized_and_normalized' = r.value
                       /\ IF IsTruthy(r.value)
                          THEN /\ aggregator_calls' = aggregator_calls + 1
                               /\ IF AggregateRaises(r.value.dict)
                                  THEN /\ Crash("aggregate")
                                       /\ UNCHANGED final_grocery_list
                                  ELSE /\ final_grocery_list' =
                                            PyDict(aggregate_ingredients(r.value.dict))
                                       /\ pc' = "DONE"
                                       /\ raised_in' = raised_in
                          ELSE /\ pc' = "CATEGORIZATION_FAILED"
                               /\ UNCHANGED <<final_grocery_list, aggregator_calls,
                                              raised_in>>
     ELSE /\ pc' = "NO_INGREDIENTS"
          /\ UNCHANGED <<categorizer_calls, categorizer_input,
                         categorized_and_normalized, final_grocery_list,
                         aggregator_calls, raised_in>>
  /\ UNCHANGED <<dishes, runs, valid_dishes, i, recipe_content,
                 total_ingredients_extracted, dish_state, extracted,
                 extraction_calls, aggVars>>

Init == AppInit /\ AggIdle

Next ==
  \/ add_dish
  \/ \E index \in 1..Len(dishes) : remove_dish(index)
  \/ \E index \in 1..Len(dishes) : \E name \in DishNames : EditDishName(index, name)
  \/ ClickGenerate
  \/ ResolveRecipe
  \/ ExtractIngredients
  \/ ProcessAllIngredients

Spec == Init /\ [][Next]_vars

\* ------------------------------------------------------------------------
\* Properties of aggregate_ingredients (checked under AggSpec)
\* ------------------------------------------------------------------------
BucketNames == {"pantry", "perishables"}

RECURSIVE FirstKeysFrom(_, _)
\* the distinct lower-cased item values of a bucket, in the order of their
\* first occurrence, given the set of keys already seen
FirstKeysFrom(bucket, seen) ==
  IF bucket = <<>> THEN <<>>
  ELSE LET key == lower(Head(bucket).item)
       IN IF key \in seen
          THEN FirstKeysFrom(Tail(bucket), seen)
          ELSE <<key>> \o FirstKeysFrom(Tail(bucket), seen \cup {key})

FirstKeys(bucket) == FirstKeysFrom(bucket, {})

RECURSIVE JoinedQuantity(_, _, _)
\* the quantity strings of the entries of a bucket with the given key, in
\* input order, joined with " + "; first tells whether none was taken yet
JoinedQuantity(bucket, key, first) ==
  IF bucket = <<>> THEN <<>>
  ELSE IF lower(Head(bucket).item) = key
       THEN (IF first THEN <<>> ELSE Separator) \o Head(bucket).quantity
            \o JoinedQuantity(Tail(bucket), key, FALSE)
       ELSE JoinedQuantity(Tail(bucket), key, first)

\* the set of values f(e) over the entries of a bucket
LowerKeySet(bucket) == { lower(bucket[p].item) : p \in 1..Len(bucket) }

StrippedKeySet(bucket) == { strip(lower(bucket[p].item)) : p \in 1..Len(bucket) }

\* C1: each bucket returned by aggregate_ingredients contains no two entries
\* whose item values are equal under case-insensitive comparison.
C1_NoCaseInsensitiveDuplicates ==
  apc # "start" =>
    \A b \in BucketNames : \A p, q \in 1..Len(output[b]) :
      p # q => lower(output[b][p].item) # lower(output[b][q].item)

\* C2 (as stated): entries of a bucket whose item values differ only by
\* letter case or by leading/trailing whitespace are merged into a single
\* output entry, so a bucket has at most one output entry per item value
\* taken modulo case and surrounding whitespace.
C2_MergeModuloCaseAndWhitespace ==
  apc # "start" =>
    \A b \in BucketNames : Len(output[b]) <= Cardinality(StrippedKeySet(input[b]))

\* C2 (amended): entries of a bucket are merged into a single output entry
\* exactly when their item values have the same lower-cased form; each
\* bucket has one output entry per distinct lower-cased item value, and
\* surrounding whitespace is significant.
C2_MergeModuloCase ==
  apc # "start" =>
    \A b \in BucketNames : Len(output[b]) = Cardinality(LowerKeySet(input[b]))

\* "S" and "s" were merged into one entry while " s" stayed apart
C2_Witness ==
  /\ apc = "aggregated"
  /\ Len(input.pantry) = 3
  /\ { input.pantry[p].item : p \in 1..3 } = { <<"S">>, <<"s">>, <<" ", "s">> }
  /\ Len(output.pantry) = 2

C4_FirstOccurrenceOrder ==
  apc # "start" =>
    \A b \in BucketNames :
      /\ Len(output[b]) = Len(FirstKeys(input[b]))
      /\ \A k \in 1..Len(output[b]) :
           output[b][k].item = title(FirstKeys(input[b])[k])

\* a key occurred again after a different key and kept its first position
C4_Witness ==
  /\ apc = "aggregated"
  /\ Len(input.perishables) = 3
  /\ lower(input.perishables[1].item) = lower(input.perishables[3].item)
  /\ lower(input.perishables[1].item) # lower(input.perishables[2].item)
  /\ Len(output.perishables) = 2
  /\ output.perishables[1].item = title(lower(input.perishables[1].item))
  /\ output.perishables[2].item = title(lower(input.perishables[2].item))

\* C5: aggregation is idempotent: aggregating the result of
\* aggregate_ingredients again returns the same result.
C5_Idempotent ==
  apc = "reaggregated" => output2 = output

\* ------------------------------------------------------------------------
\* Properties of the "Generate Grocery List" run (checked under Spec)
\* ------------------------------------------------------------------------
\* the loop is over: every valid dish went through its iteration
AllDishesProcessed == valid_dishes # <<>> /\ i > Len(valid_dishes)

RECURSIVE ConcatExtractedFrom(_)
\* the lists returned by the dishes k, k+1, ... whose recipe resolution and
\* extraction both succeeded, concatenated in dish order
ConcatExtractedFrom(k) ==
  IF k > Len(valid_dishes) THEN <<>>
  ELSE (IF dish_state[k] = "INGREDIENTS_EXTRACTED" THEN extracted[k] ELSE <<>>)
       \o ConcatExtractedFrom(k + 1)

\* whether a categorizer payload lacks the pantry or the perishables field
LacksBucket(v) == v.type = "dict" /\ ~(BucketNames \subseteq DOMAIN v.dict)

\* C6: if the Categorizer returns a payload that lacks the perishables (or
\* the pantry) field, the run ends in CategorizationFailure: the Aggregator
\* is not invoked and no grocery list is produced.
C6_MissingBucketIsCategorizationFailure ==
  LacksBucket(categorized_and_normalized) =>
    /\ pc = "CATEGORIZATION_FAILED"
    /\ aggregator_calls = 0
    /\ final_grocery_list = PyNone

\* C7: no dish-level failure is fatal: whatever recipe resolution and
\* extraction deliver, no run ends inside the per-dish loop, a failed dish
\* contributes no entries, and after the loop every dish has been processed.
C7_NoDishLevelFailureIsFatal ==
  /\ raised_in \notin {"recipe", "extraction"}
  /\ \A k \in 1..Len(dish_state) :
       dish_state[k] \in {"RECIPE_FAILED", "EXTRACTION_FAILED"} => extracted[k] = <<>>
  /\ pc \in {"post", "NO_INGREDIENTS", "CATEGORIZATION_FAILED", "DONE"} =>
       \A k \in 1..Len(dish_state) :
         dish_state[k] \in {"RECIPE_FAILED", "EXTRACTION_FAILED", "INGREDIENTS_EXTRACTED"}

\* C8: if the accumulator is empty after all dishes are processed, the run
\* ends in NO_INGREDIENTS: neither the Categorizer nor the Aggregator is
\* invoked and no grocery list is produced.
C8_EmptyAccumulatorEndsInNoIngredients ==
  (AllDishesProcessed /\ total_ingredients_extracted = <<>>) =>
    /\ pc \in {"post", "NO_INGREDIENTS"}
    /\ categorizer_calls = 0
    /\ aggregator_calls = 0
    /\ final_grocery_list = PyNone

\* a run of two dishes, one without recipe and one without ingredients,
\* ended in NO_INGREDIENTS
C8_Witness ==
  /\ pc = "NO_INGREDIENTS"
  /\ Len(valid_dishes) = 2
  /\ dish_state = <<"RECIPE_FAILED", "EXTRACTION_FAILED">>

\* C9: an extraction result that is not an array of objects with both item
\* and quantity is a failure of its dish, so every element of the
\* accumulator, and of the Categorizer's input, has an item and a quantity.
C9_AccumulatorEntriesWellFormed ==
  /\ \A k \in 1..Len(total_ingredients_extracted) :
       HasBothKeys(total_ingredients_extracted[k])
  /\ \A k \in 1..Len(categorizer_input) : HasBothKeys(categorizer_input[k])
  /\ \A k \in 1..Len(dish_state) :
       dish_state[k] = "INGREDIENTS_EXTRACTED" =>
         \A n \in 1..Len(extracted[k]) : HasBothKeys(extracted[k][n])

\* C10: the Categorizer is invoked at most once in a run, only after every
\* valid dish has been processed, on the full accumulator, which is the
\* concatenation in dish order of the lists returned by the dishes whose
\* recipe resolution and extraction both succeeded (nothing deduplicated,
\* nothing left from an earlier run); extract_ingredients is called at most
\* once per dish and only for a dish whose recipe was found.
C10_CategorizerOnceOnFullAccumulator ==
  /\ categorizer_calls <= 1
  /\ total_ingredients_extracted = ConcatExtractedFrom(1)
  /\ categorizer_calls = 1 =>
       /\ AllDishesProcessed
       /\ categorizer_input = ConcatExtractedFrom(1)
  /\ \A n \in 1..Len(extraction_calls) :
       /\ dish_state[extraction_calls[n]] \in
            {"RECIPE_FOUND", "INGREDIENTS_EXTRACTED", "EXTRACTION_FAILED"}
       /\ \A m \in 1..(n - 1) : extraction_calls[m] < extraction_calls[n]

\* in a second run two dishes returned different lists with a common entry
\* and the Categorizer received both lists in dish order
C10_Witness ==
  /\ runs = 2
  /\ categorizer_calls = 1
  /\ Len(valid_dishes) = 2
  /\ Len(extracted[1]) = 2
  /\ Len(extracted[2]) = 1
  /\ extracted[2][1] = extracted[1][2]
  /\ extracted[1][1] # extracted[1][2]
  /\ categorizer_input = extracted[1] \o extracted[2]

====
